---- MODULE Spec2Model ----
(***************************************************************************)
(* Model of the photo ingestion worker (worker/embed_images_worker.py),    *)
(* the metadata normaliser (tools/format_metadata.py) and the image search *)
(* tool (tools/image_search.py, tools/unified_search.py,                   *)
(* tools/metadata_filter.py).                                              *)
(*                                                                         *)
(* The queue (SQS), the blob store (S3), the embedding model (CLIP) and    *)
(* the vector index (a Chroma collection) are the environment: every call  *)
(* into them either returns or raises, chosen nondeterministically.        *)
(***************************************************************************)
EXTENDS Integers, FiniteSets, Sequences, TLC

\* ---------------------------------------------------------------- bounds
MaxMsgs == 2

\* ------------------------------------------------------------- constants
Workers == {"w1", "w2"}
PhotoIds == {"p1", "p2"}
None == "None"
NoMsg == 0
\* locals that hold nothing yet
NoDoc == [k \in {} |-> 0]
NoVec == <<"vec", 0>>
Absent == 0

required_fields == {"bucket", "image_key", "photo_id", "metadata_key"}

\* ------------------------------------------------------- message bodies
\* kind: what json.loads makes of msg["Body"]; fields: the names for which
\* `field in body` is true.
NotJson == [kind |-> "notjson", fields |-> {}, photo_id |-> None, image_key |-> 0, metadata_key |-> 0]
Scalar == [kind |-> "scalar", fields |-> {}, photo_id |-> None, image_key |-> 0, metadata_key |-> 0]
ArrayAll == [kind |-> "array", fields |-> required_fields, photo_id |-> None, image_key |-> 0, metadata_key |-> 0]
ObjMissing == [kind |-> "object", fields |-> {"bucket", "image_key"}, photo_id |-> None, image_key |-> 0, metadata_key |-> 0]
Job(p, c) == [kind |-> "object", fields |-> required_fields, photo_id |-> p, image_key |-> c, metadata_key |-> c]

Jobs == {Job("p1", 1), Job("p1", 2), Job("p2", 1)}
BodySeq == <<NotJson, Scalar, ArrayAll, ObjMissing,
            Job("p1", 1), Job("p1", 2), Job("p2", 4)>>
Bodies == {BodySeq[i] : i \in 1..Len(BodySeq)}

\* a validated job in the sense of the specification: a JSON object with
\* all four required fields
IsValidJob(body) == body.kind = "object" /\ required_fields \subseteq body.fields

\* ------------------------------------------------- metadata normaliser
\* JSON values are <<type, value>> pairs; a document is a function from the
\* keys it has to their values
JNull == <<"null", "null">>
JInt(n) == <<"int", n>>
JStr(s) == <<"str", s>>
JDict(d) == <<"dict", d>>
JList(l) == <<"list", l>>

\* Python truthiness of a JSON value (`if exif_data:`)
Truthy(v) ==
  v \notin {JNull, JInt(0), JStr(""), JDict("empty"), JList("empty"),
            <<"bool", FALSE>>}

\* json.dumps(value): the JSON text of a value, a string
json_dumps(v) == JStr(<<"json", v>>)

\* raw metadata documents held by the blob store, by metadata key:
\*  1: names the photo ("id"), null year, non-empty exif sub-document
\*  2: no id, no month, no hour, no exif, null camera_make
\*  3: empty exif sub-document, null month
\*  4: a nested object under a key other than exif, empty exif sub-document
RawDoc(c) ==
  IF c = 1
  THEN ("id" :> JStr("p1")) @@ ("year" :> JNull)
       @@ ("period_of_day" :> JStr("morning"))
       @@ ("camera_make" :> JStr("Canon")) @@ ("exif" :> JDict("Make=Canon"))
  ELSE IF c = 2
  THEN ("year" :> JInt(2023)) @@ ("period_of_day" :> JStr("evening"))
       @@ ("camera_make" :> JNull)
  ELSE IF c = 3
  THEN ("year" :> JInt(2023)) @@ ("month" :> JNull)
       @@ ("period_of_day" :> JStr("morning"))
       @@ ("camera_make" :> JStr("Canon")) @@ ("exif" :> JDict("empty"))
  ELSE ("year" :> JInt(2023)) @@ ("period_of_day" :> JStr("morning"))
       @@ ("gps" :> JDict("lat=1")) @@ ("exif" :> JDict("empty"))

\* a flattening that adds no exif key of its own
flatten_metadata_no_default(md) ==
  LET exif_data == IF "exif" \in DOMAIN md THEN md["exif"] ELSE JDict("empty")
      rest == [k \in DOMAIN md \ {"exif"} |-> md[k]]
  IN  IF Truthy(exif_data)
      THEN rest @@ ("exif" :> json_dumps(exif_data))
      ELSE rest

flatten_metadata(md) ==
  LET exif_data == IF "exif" \in DOMAIN md THEN md["exif"] ELSE JDict("empty")
      rest == [k \in DOMAIN md \ {"exif"} |-> md[k]]
  IN  IF Truthy(exif_data)
      THEN rest @@ ("exif" :> json_dumps(exif_data))
      ELSE rest @@ ("exif" :> JStr("unknown"))

sanitize_metadata(md) ==
  [k \in DOMAIN md |->
     IF md[k] = JNull
     THEN IF k \in {"year", "month", "hour"} THEN JInt(-1) ELSE JStr("unknown")
     ELSE md[k]]

\* a value the collection accepts as a metadata value (str, int, float)
IsScalar(v) == v[1] \in {"str", "int", "float"}

ScalarOnly(md) == \A k \in DOMAIN md : IsScalar(md[k])

\* ------------------------------------------------------ embedding model
embed_image(content) == <<"vec", content>>

\* --------------------------------------------------------- vector index
\* the index is the sequence of records of the collection, in insertion
\* order; collection.add inserts a record unless a record with the same id
\* is already present, in which case the call returns without changing
\* anything
Record(id, vec, md) == [id |-> id, embedding |-> vec, metadata |-> md]

RecordsFor(idx, id) == SelectSeq(idx, LAMBDA r : r.id = id)

HasId(idx, id) == \E i \in 1..Len(idx) : idx[i].id = id

\* a write that never looks for the id
collection_add_blind(idx, id, vec, md) == Append(idx, Record(id, vec, md))

collection_add(idx, id, vec, md) ==
  IF HasId(idx, id) THEN idx ELSE Append(idx, Record(id, vec, md))

\* the record a job produces when every step of its delivery succeeds
ExpectedRecord(b) ==
  Record(b.photo_id, embed_image(b.image_key),
         sanitize_metadata(flatten_metadata(RawDoc(b.metadata_key))))

\* ---------------------------------------------------------- search tool
\* Arguments are JSON-like values: JNull is Python's None.
IsStr(v) == v[1] = "str"

\* str.strip()
strip(v) ==
  IF v = JStr(" Canon ") THEN JStr("Canon")
  ELSE IF v = JStr("  ") THEN JStr("")
  ELSE v

\* Path(image_path).exists(), and what the file holds
ExistingImages == {JStr("q.jpg")}
QueryContent == 1

Periods == {JStr("morning"), JStr("afternoon"), JStr("evening"), JStr("night")}

\* one entry of a dict, and a dict with one more entry
Put(d, k, v) == [x \in DOMAIN d \cup {k} |-> IF x = k THEN v ELSE d[x]]
EmptyDict == [x \in {} |-> JNull]

build_where_clause(year, month, time_of_day, camera_make, camera_model) ==
  LET w1 == IF year # JNull THEN Put(EmptyDict, "year", year) ELSE EmptyDict
      w2 == IF month # JNull THEN Put(w1, "month", month) ELSE w1
      w3 == IF Truthy(time_of_day) THEN Put(w2, "period_of_day", time_of_day) ELSE w2
      w4 == IF Truthy(camera_make) THEN Put(w3, "camera_make", camera_make) ELSE w3
      w5 == IF Truthy(camera_model) THEN Put(w4, "camera_model", camera_model) ELSE w4
  IN  w5

\* floats are counted in units of 0.0001
JFloat(x) == <<"float", x>>
One == 10000

\* cosine distance between two embeddings (hnsw:space cosine)
Distance(q, e) ==
  IF q = e THEN 0
  ELSE IF e[2] = 2 THEN 6420
  ELSE IF e[2] = 3 THEN 3576
  ELSE 13337

Matches(md, where) ==
  \A k \in DOMAIN where : k \in DOMAIN md /\ md[k] = where[k]

\* positions of idx ordered by ascending distance to q (insertion order
\* among equals)
RECURSIVE Nearest(_, _, _)
Nearest(idx, q, todo) ==
  IF todo = {} THEN <<>>
  ELSE LET best == CHOOSE i \in todo :
                     \A j \in todo :
                       \/ Distance(q, idx[i].embedding) < Distance(q, idx[j].embedding)
                       \/ /\ Distance(q, idx[i].embedding) = Distance(q, idx[j].embedding)
                          /\ i <= j
       IN  <<best>> \o Nearest(idx, q, todo \ {best})

\* collection.query(query_embeddings, n_results, where): the n_results
\* nearest records whose metadata satisfies where, as parallel lists; the
\* empty dict, which the caller passes as None, restricts nothing.  A
\* collection that does not include distances returns none.
collection_query(idx, q, n_results, where, no_distances) ==
  LET cand == {i \in 1..Len(idx) : Matches(idx[i].metadata, where)}
      order == Nearest(idx, q, cand)
      n == IF Len(order) < n_results THEN Len(order) ELSE n_results
  IN  [ids |-> [i \in 1..n |-> idx[order[i]].id],
       metadatas |-> [i \in 1..n |-> idx[order[i]].metadata],
       distances |-> IF no_distances THEN <<>>
                     ELSE [i \in 1..n |-> Distance(q, idx[order[i]].embedding)]]

NoRaw == [ids |-> <<>>, metadatas |-> <<>>, distances |-> <<>>]

\* meta.get(key)
Get(md, k) == IF k \in DOMAIN md THEN md[k] ELSE JNull

\* round(x, 3): x to the nearest multiple of 0.001, a tie going to the even
\* one
round3(x) ==
  LET q == x \div 10
      r == x % 10
  IN  10 * (IF r < 5 THEN q
            ELSE IF r > 5 THEN q + 1
            ELSE IF q % 2 = 0 THEN q ELSE q + 1)

\* a score computed without rounding
similarity_score_unrounded(distance) ==
  IF distance # JNull THEN JFloat(One - distance[2]) ELSE JNull

\* round(1 - distance, 3) if distance is not None else None
similarity_score(distance) ==
  IF distance # JNull THEN JFloat(round3(One - distance[2])) ELSE JNull

\* outcome of a call: raised, the returned list, the calls it made to the
\* embedding function and to the index, and what the index returned
Outcome(raised, value, embedded, queried, n_results, where) ==
  [raised |-> raised, value |-> value, embed_called |-> embedded,
   query_called |-> queried, n_results |-> n_results, where |-> where,
   returned |-> NoRaw]

Returns(value, embedded, queried, n, where) ==
  Outcome(FALSE, value, embedded, queried, n, where)
Raises(embedded, queried, n, where) ==
  Outcome(TRUE, <<>>, embedded, queried, n, where)

\* the photo dictionary built from entry i of the lists the index returned
photo(raw, i) ==
  LET meta == IF i <= Len(raw.metadatas) THEN raw.metadatas[i] ELSE EmptyDict
      distance == IF i <= Len(raw.distances) THEN JFloat(raw.distances[i]) ELSE JNull
  IN  [photo_id |-> Get(meta, "id"),
       period_of_day |-> Get(meta, "period_of_day"),
       year |-> Get(meta, "year"),
       month |-> Get(meta, "month"),
       camera_make |-> Get(meta, "camera_make"),
       camera_model |-> Get(meta, "camera_model"),
       distance |-> distance,
       similarity_score |-> similarity_score(distance)]

\* a result list put in the opposite order
photos_reversed(raw) ==
  [i \in 1..Len(raw.ids) |-> photo(raw, Len(raw.ids) + 1 - i)]

\* for i in range(len(ids)): photos.append({...})
photos(raw) == [i \in 1..Len(raw.ids) |-> photo(raw, i)]

\* unified_search(collection, query_embedding, where, k); env.query_fails:
\* the index call raises (connection or storage fault)
unified_search(idx, q, where, k, env) ==
  IF env.query_fails THEN Raises(TRUE, TRUE, k, where)
  ELSE LET raw == collection_query(idx, q, k, where, env.no_distances)
       IN  [Returns(photos(raw), TRUE, TRUE, k, where) EXCEPT !.returned = raw]

\* the largest number of results a search asks for
MaxResults == 20

Min(a, b) == IF a < b THEN a ELSE b
Max(a, b) == IF a > b THEN a ELSE b

\* a search that asks for as many results as the caller wants
limit_k_none(k) == k

\* k = min(max(k, 1), 20)
limit_k(k) == Min(Max(k, 1), MaxResults)

\* the body of the try block of search_by_image_impl
search_try(idx, a, env) ==
  IF ~Truthy(a.image_path) \/ strip(a.image_path) = JStr("")
    THEN Returns(<<>>, FALSE, FALSE, 0, EmptyDict)
  ELSE IF a.image_path \notin ExistingImages
    THEN Returns(<<>>, FALSE, FALSE, 0, EmptyDict)
  ELSE IF a.month # JNull /\ ~IsStr(a.month) /\ ~(1 <= a.month[2] /\ a.month[2] <= 12)
    THEN Returns(<<>>, FALSE, FALSE, 0, EmptyDict)
  ELSE IF a.month # JNull /\ IsStr(a.month)
    THEN Raises(FALSE, FALSE, 0, EmptyDict)                \* TypeError of `1 <= month`
  ELSE IF Truthy(a.time_of_day) /\ a.time_of_day \notin Periods
    THEN Returns(<<>>, FALSE, FALSE, 0, EmptyDict)
  ELSE IF a.camera_make # JNull /\ (~IsStr(a.camera_make) \/ ~Truthy(strip(a.camera_make)))
    THEN Returns(<<>>, FALSE, FALSE, 0, EmptyDict)
  ELSE IF a.camera_model # JNull /\ (~IsStr(a.camera_model) \/ ~Truthy(strip(a.camera_model)))
    THEN Returns(<<>>, FALSE, FALSE, 0, EmptyDict)
  ELSE LET camera_make == IF a.camera_make # JNull THEN strip(a.camera_make) ELSE JNull
           camera_model == IF a.camera_model # JNull THEN strip(a.camera_model) ELSE JNull
           k == limit_k(a.k)
       IN  IF env.embed_fails THEN Raises(TRUE, FALSE, 0, EmptyDict)
           ELSE LET query_vec == embed_image(QueryContent)
                    where == build_where_clause(a.year, a.month, a.time_of_day,
                                                camera_make, camera_model)
                IN  unified_search(idx, query_vec, where, k, env)

\* the except clauses of search_by_image_impl
search_except(out) == [out EXCEPT !.raised = FALSE, !.value = <<>>]

search_by_image_impl(idx, a, env) ==
  LET out == search_try(idx, a, env)
  IN  IF out.raised THEN search_except(out) ELSE out

\* the calls made in the model
SearchArgs ==
  [image_path : {JStr(""), JStr("gone.jpg"), JStr("q.jpg")},
   year : {JNull, JInt(2023)},
   month : {JNull, JInt(0), JInt(6), JInt(13), JStr("6")},
   time_of_day : {JNull, JStr(""), JStr("morning"), JStr("noon")},
   camera_make : {JNull, JStr(""), JStr("  "), JStr(" Canon "), JInt(42)},
   camera_model : {JNull, JStr("")},
   k : {-3, 0, 5, 999}]

\* the environment of a call: at most one of the embedding function failing,
\* the index failing, and the index returning no distances
SearchEnvs ==
  {e \in [embed_fails : BOOLEAN, query_fails : BOOLEAN, no_distances : BOOLEAN] :
     Cardinality({f \in {"embed_fails", "query_fails", "no_distances"} : e[f]}) <= 1}

NoArgs ==
  [image_path |-> JNull, year |-> JNull, month |-> JNull, time_of_day |-> JNull,
   camera_make |-> JNull, camera_model |-> JNull, k |-> 0]
NoSearch ==
  [called |-> FALSE, args |-> NoArgs,
   env |-> [embed_fails |-> FALSE, query_fails |-> FALSE, no_distances |-> FALSE],
   out |-> Returns(<<>>, FALSE, FALSE, 0, EmptyDict)]

\* ---------------------------------------------------------------- state
VARIABLES
  msgs,           \* message id -> body (what was sent to the queue)
  qstate,         \* message id -> "visible" | "inflight" | "deleted"
  latest,         \* message id -> worker holding the most recent receipt handle
  pc,             \* worker -> position in the main loop
  cur,            \* worker -> message being handled (msg, receipt_handle)
  shutdown_flag,  \* worker -> the global shutdown_flag of that process
  metadata,       \* worker -> local variable metadata
  embedding,      \* worker -> local variable embedding
  tmp,            \* TMP_DIR of the host: file name -> content
  index,          \* the Chroma collection
  progress,       \* worker -> how far this delivery got: "none", "stored", "acked"
  recvAfterSig,   \* worker -> receives issued after the signal (capped)
  search          \* the last call of search_by_image_impl and its outcome

vars == <<msgs, qstate, latest, pc, cur, shutdown_flag, metadata, embedding,
          tmp, index, progress, recvAfterSig, search>>

MsgIds == 1..MaxMsgs
Files == PhotoIds \X {"jpg", "json"}

body(w) == msgs[cur[w]]
photo_id(w) == body(w).photo_id
local_path(w) == <<photo_id(w), "jpg">>
local_metadata_path(w) == <<photo_id(w), "json">>

\* what every process starts from, given the queue and the started workers
Start(bodies, queued, started, idx) ==
  /\ msgs = bodies
  /\ qstate = [m \in MsgIds |-> IF m \in queued THEN "visible" ELSE "deleted"]
  /\ latest = [m \in MsgIds |-> None]
  /\ pc = [w \in Workers |-> IF w \in started THEN "loop" ELSE "off"]
  /\ cur = [w \in Workers |-> NoMsg]
  /\ shutdown_flag = [w \in Workers |-> FALSE]
  /\ metadata = [w \in Workers |-> NoDoc]
  /\ embedding = [w \in Workers |-> NoVec]
  /\ tmp = [f \in Files |-> Absent]
  /\ index = idx
  /\ progress = [w \in Workers |-> "none"]
  /\ recvAfterSig = [w \in Workers |-> 0]
  /\ search = NoSearch

\* one worker process polling a queue of MaxMsgs arbitrary messages (the
\* queue is unordered, so the bodies are listed in BodySeq order)
Init ==
  \E f \in [MsgIds -> 1..Len(BodySeq)] :
    /\ \A m, n \in MsgIds : m < n => f[m] <= f[n]
    /\ Start([m \in MsgIds |-> BodySeq[f[m]]], MsgIds, {"w1"}, <<>>)

\* two worker processes polling a queue that holds one message (the other
\* messages were malformed and are already deleted)
InitConc ==
  \E b \in Bodies :
    Start([m \in MsgIds |-> IF m = 1 THEN b ELSE NotJson], {1}, Workers, <<>>)

\* ----------------------------------------------------------------- queue
\* sqs.delete_message with the handle of worker w: the message goes away;
\* with a handle that is no longer the most recent one the request may
\* also return without deleting anything (DeleteStale)
delete_message(w) == [qstate EXCEPT ![cur[w]] = "deleted"]

HandleIsStale(w) == latest[cur[w]] # w /\ qstate[cur[w]] # "deleted"

\* the redelivery mechanism of the queue (VisibilityTimeout=300): a message
\* received and not deleted becomes visible again
VisibilityTimeout(m) ==
  /\ qstate[m] = "inflight"
  /\ qstate' = [qstate EXCEPT ![m] = "visible"]
  /\ UNCHANGED <<msgs, latest, pc, cur, shutdown_flag, metadata, embedding,
                 tmp, index, progress, recvAfterSig, search>>

\* ---------------------------------------------------------------- signal
signal_handler(w) ==
  /\ pc[w] \notin {"off", "exited"}
  /\ ~shutdown_flag[w]
  /\ shutdown_flag' = [shutdown_flag EXCEPT ![w] = TRUE]
  /\ UNCHANGED <<msgs, qstate, latest, pc, cur, metadata, embedding, tmp,
                 index, progress, recvAfterSig, search>>

\* ------------------------------------------------------------- main loop
\* where control goes and which locals are dropped when an iteration ends
EndIteration(w, next) ==
  /\ pc' = [pc EXCEPT ![w] = next]
  /\ cur' = [cur EXCEPT ![w] = NoMsg]
  /\ metadata' = [metadata EXCEPT ![w] = NoDoc]
  /\ embedding' = [embedding EXCEPT ![w] = NoVec]
  /\ progress' = [progress EXCEPT ![w] = "none"]

\* an exception that is not caught ends the process
main_loop_reraise(w) == "exited"

\* `except Exception` of the main loop: log, time.sleep(5), next iteration
main_loop_except(w) == "sleep"

\* a handler that acknowledges the failed job
job_except_acks(w) == [qstate EXCEPT ![cur[w]] = "deleted"]

\* `except Exception` of the job: log only, the message is not deleted
job_except(w) == qstate

\* `finally` of the job: the files it unlinks
finally_unlinks(w) == {local_path(w)}

Goto(w, next) == pc' = [pc EXCEPT ![w] = next]

\* a loop that never looks at the flag
LoopEnterAlways(w) ==
  /\ pc[w] = "loop"
  /\ Goto(w, "receive")
  /\ UNCHANGED <<msgs, qstate, latest, cur, shutdown_flag, metadata,
                 embedding, tmp, index, progress, recvAfterSig, search>>

\* while not shutdown_flag: (condition true)
LoopEnter(w) ==
  /\ pc[w] = "loop"
  /\ ~shutdown_flag[w]
  /\ Goto(w, "receive")
  /\ UNCHANGED <<msgs, qstate, latest, cur, shutdown_flag, metadata,
                 embedding, tmp, index, progress, recvAfterSig, search>>

\* while not shutdown_flag: (condition false), "Worker shutdown complete"
LoopExit(w) ==
  /\ pc[w] = "loop"
  /\ shutdown_flag[w]
  /\ Goto(w, "exited")
  /\ UNCHANGED <<msgs, qstate, latest, cur, shutdown_flag, metadata,
                 embedding, tmp, index, progress, recvAfterSig, search>>

\* sqs.receive_message is called (the long poll starts)
ReceiveIssue(w) ==
  /\ pc[w] = "receive"
  /\ Goto(w, "polling")
  /\ recvAfterSig' = [recvAfterSig EXCEPT ![w] =
                        IF shutdown_flag[w] THEN IF @ < 2 THEN @ + 1 ELSE @ ELSE @]
  /\ UNCHANGED <<msgs, qstate, latest, cur, shutdown_flag, metadata,
                 embedding, tmp, index, progress, search>>

\* the long poll returns message m
ReceiveMsg(w, m) ==
  /\ pc[w] = "polling"
  /\ qstate[m] = "visible"
  /\ qstate' = [qstate EXCEPT ![m] = "inflight"]
  /\ latest' = [latest EXCEPT ![m] = w]
  /\ cur' = [cur EXCEPT ![w] = m]
  /\ Goto(w, "validate")
  /\ UNCHANGED <<msgs, shutdown_flag, metadata, embedding, tmp, index,
                 progress, recvAfterSig, search>>

\* the long poll (WaitTimeSeconds=20) ends with no message available:
\* continue
ReceiveEmpty(w) ==
  /\ pc[w] = "polling"
  /\ \A m \in MsgIds : qstate[m] # "visible"
  /\ Goto(w, "loop")
  /\ UNCHANGED <<msgs, qstate, latest, cur, shutdown_flag, metadata,
                 embedding, tmp, index, progress, recvAfterSig, search>>

\* sqs.receive_message raises
ReceiveFail(w) ==
  /\ pc[w] = "polling"
  /\ Goto(w, main_loop_except(w))
  /\ UNCHANGED <<msgs, qstate, latest, cur, shutdown_flag, metadata,
                 embedding, tmp, index, progress, recvAfterSig, search>>

\* json.loads and the required-fields test, as the code evaluates them
ValidateOutcome(b) ==
  IF b.kind = "notjson" THEN "reject"                  \* JSONDecodeError
  ELSE IF b.kind = "scalar" THEN "TypeError"           \* `field in body`
  ELSE IF ~(required_fields \subseteq b.fields) THEN "reject"
  ELSE IF b.kind # "object" THEN "TypeError"           \* body["bucket"]
  ELSE "ok"

\* a rejected message: delete_message returns, continue
RejectDelete(w) ==
  /\ pc[w] = "validate"
  /\ ValidateOutcome(body(w)) = "reject"
  /\ qstate' = delete_message(w)
  /\ EndIteration(w, "loop")
  /\ UNCHANGED <<msgs, latest, shutdown_flag, tmp, index, recvAfterSig, search>>

\* a rejected message: delete_message returns but the handle was stale
RejectDeleteStale(w) ==
  /\ pc[w] = "validate"
  /\ ValidateOutcome(body(w)) = "reject"
  /\ HandleIsStale(w)
  /\ EndIteration(w, "loop")
  /\ UNCHANGED <<msgs, qstate, latest, shutdown_flag, tmp, index, recvAfterSig, search>>

\* a rejected message: delete_message raises
RejectDeleteFail(w) ==
  /\ pc[w] = "validate"
  /\ ValidateOutcome(body(w)) = "reject"
  /\ EndIteration(w, main_loop_except(w))
  /\ UNCHANGED <<msgs, qstate, latest, shutdown_flag, tmp, index, recvAfterSig, search>>

\* validation itself raises TypeError, caught by the main loop
ValidateRaise(w) ==
  /\ pc[w] = "validate"
  /\ ValidateOutcome(body(w)) = "TypeError"
  /\ EndIteration(w, main_loop_except(w))
  /\ UNCHANGED <<msgs, qstate, latest, shutdown_flag, tmp, index, recvAfterSig, search>>

ValidateOK(w) ==
  /\ pc[w] = "validate"
  /\ ValidateOutcome(body(w)) = "ok"
  /\ Goto(w, "download_image")
  /\ UNCHANGED <<msgs, qstate, latest, cur, shutdown_flag, metadata,
                 embedding, tmp, index, progress, recvAfterSig, search>>

JobPcs == {"download_image", "download_metadata", "load_metadata",
           "normalize", "embed", "store", "ack"}

\* any step of the job raises: except clause, then finally
JobFail(w) ==
  /\ pc[w] \in JobPcs
  /\ qstate' = job_except(w)
  /\ Goto(w, "finally")
  /\ UNCHANGED <<msgs, latest, cur, shutdown_flag, metadata, embedding,
                 tmp, index, progress, recvAfterSig, search>>

\* 1. s3.download_file(bucket, image_key, local_path)
DownloadImage(w) ==
  /\ pc[w] = "download_image"
  /\ tmp' = [tmp EXCEPT ![local_path(w)] = body(w).image_key]
  /\ Goto(w, "download_metadata")
  /\ UNCHANGED <<msgs, qstate, latest, cur, shutdown_flag, metadata,
                 embedding, index, progress, recvAfterSig, search>>

\* a metadata download that goes on to the index write
DownloadMetadataThenStore(w) ==
  /\ pc[w] = "download_metadata"
  /\ tmp' = [tmp EXCEPT ![local_metadata_path(w)] = body(w).metadata_key]
  /\ Goto(w, "store")
  /\ UNCHANGED <<msgs, qstate, latest, cur, shutdown_flag, metadata,
                 embedding, index, progress, recvAfterSig, search>>

\* 2. s3.download_file(bucket, metadata_key, local_metadata_path)
DownloadMetadata(w) ==
  /\ pc[w] = "download_metadata"
  /\ tmp' = [tmp EXCEPT ![local_metadata_path(w)] = body(w).metadata_key]
  /\ Goto(w, "load_metadata")
  /\ UNCHANGED <<msgs, qstate, latest, cur, shutdown_flag, metadata,
                 embedding, index, progress, recvAfterSig, search>>

\* open(local_metadata_path); json.load(f)
LoadMetadata(w) ==
  /\ pc[w] = "load_metadata"
  /\ tmp[local_metadata_path(w)] # Absent
  /\ metadata' = [metadata EXCEPT ![w] = RawDoc(tmp[local_metadata_path(w)])]
  /\ Goto(w, "normalize")
  /\ UNCHANGED <<msgs, qstate, latest, cur, shutdown_flag, embedding, tmp,
                 index, progress, recvAfterSig, search>>

\* 2.1 flatten_metadata, sanitize_metadata
Normalize(w) ==
  /\ pc[w] = "normalize"
  /\ metadata' = [metadata EXCEPT ![w] = sanitize_metadata(flatten_metadata(@))]
  /\ Goto(w, "embed")
  /\ UNCHANGED <<msgs, qstate, latest, cur, shutdown_flag, embedding, tmp,
                 index, progress, recvAfterSig, search>>

\* an embed step that goes on to the acknowledgement
EmbedSkipStore(w) ==
  /\ pc[w] = "embed"
  /\ tmp[local_path(w)] # Absent
  /\ embedding' = [embedding EXCEPT ![w] = embed_image(tmp[local_path(w)])]
  /\ Goto(w, "ack")
  /\ UNCHANGED <<msgs, qstate, latest, cur, shutdown_flag, metadata, tmp,
                 index, progress, recvAfterSig, search>>

\* 3. embed_image(image_path=local_path)
Embed(w) ==
  /\ pc[w] = "embed"
  /\ tmp[local_path(w)] # Absent
  /\ embedding' = [embedding EXCEPT ![w] = embed_image(tmp[local_path(w)])]
  /\ Goto(w, "store")
  /\ UNCHANGED <<msgs, qstate, latest, cur, shutdown_flag, metadata, tmp,
                 index, progress, recvAfterSig, search>>

\* 4. collection.add(ids=[photo_id], embeddings=..., metadatas=[metadata]);
\* the collection validates the metadata and raises on a value that is not
\* a scalar (JobFail)
Store(w) ==
  /\ pc[w] = "store"
  /\ ScalarOnly(metadata[w])
  /\ index' = collection_add(index, photo_id(w), embedding[w], metadata[w])
  /\ progress' = [progress EXCEPT ![w] = "stored"]
  /\ Goto(w, "ack")
  /\ UNCHANGED <<msgs, qstate, latest, cur, shutdown_flag, metadata,
                 embedding, tmp, recvAfterSig, search>>

\* 5. sqs.delete_message returns and the message is gone
Ack(w) ==
  /\ pc[w] = "ack"
  /\ qstate' = delete_message(w)
  /\ progress' = [progress EXCEPT ![w] = "acked"]
  /\ Goto(w, "finally")
  /\ UNCHANGED <<msgs, latest, cur, shutdown_flag, metadata, embedding,
                 tmp, index, recvAfterSig, search>>

\* 5. sqs.delete_message returns but the handle was stale
AckStale(w) ==
  /\ pc[w] = "ack"
  /\ HandleIsStale(w)
  /\ progress' = [progress EXCEPT ![w] = "acked"]
  /\ Goto(w, "finally")
  /\ UNCHANGED <<msgs, qstate, latest, cur, shutdown_flag, metadata,
                 embedding, tmp, index, recvAfterSig, search>>

\* finally: if local_path.exists(): local_path.unlink()
Cleanup(w) ==
  /\ pc[w] = "finally"
  /\ tmp' = [f \in Files |-> IF f \in finally_unlinks(w) THEN Absent ELSE tmp[f]]
  /\ EndIteration(w, "loop")
  /\ UNCHANGED <<msgs, qstate, latest, shutdown_flag, index, recvAfterSig, search>>

\* finally: unlink raises, caught by the main loop
CleanupFail(w) ==
  /\ pc[w] = "finally"
  /\ tmp[local_path(w)] # Absent
  /\ EndIteration(w, main_loop_except(w))
  /\ UNCHANGED <<msgs, qstate, latest, shutdown_flag, tmp, index, recvAfterSig, search>>

\* a sleep that is followed by the receive without the loop test
WakeSkipsTest(w) ==
  /\ pc[w] = "sleep"
  /\ Goto(w, "receive")
  /\ UNCHANGED <<msgs, qstate, latest, cur, shutdown_flag, metadata,
                 embedding, tmp, index, progress, recvAfterSig, search>>

\* time.sleep(5) returns
Wake(w) ==
  /\ pc[w] = "sleep"
  /\ Goto(w, "loop")
  /\ UNCHANGED <<msgs, qstate, latest, cur, shutdown_flag, metadata,
                 embedding, tmp, index, progress, recvAfterSig, search>>

\* the steps of one worker process and its queue
Next ==
  \/ \E m \in MsgIds : VisibilityTimeout(m)
  \/ \E w \in Workers : signal_handler(w)
  \/ \E w \in Workers : LoopEnter(w)
  \/ \E w \in Workers : LoopExit(w)
  \/ \E w \in Workers : ReceiveIssue(w)
  \/ \E w \in Workers, m \in MsgIds : ReceiveMsg(w, m)
  \/ \E w \in Workers : ReceiveEmpty(w)
  \/ \E w \in Workers : ReceiveFail(w)
  \/ \E w \in Workers : RejectDelete(w)
  \/ \E w \in Workers : RejectDeleteFail(w)
  \/ \E w \in Workers : ValidateRaise(w)
  \/ \E w \in Workers : ValidateOK(w)
  \/ \E w \in Workers : JobFail(w)
  \/ \E w \in Workers : DownloadImage(w)
  \/ \E w \in Workers : DownloadMetadata(w)
  \/ \E w \in Workers : LoadMetadata(w)
  \/ \E w \in Workers : Normalize(w)
  \/ \E w \in Workers : Embed(w)
  \/ \E w \in Workers : Store(w)
  \/ \E w \in Workers : Ack(w)
  \/ \E w \in Workers : Cleanup(w)
  \/ \E w \in Workers : CleanupFail(w)
  \/ \E w \in Workers : Wake(w)

Spec == Init /\ [][Next]_vars

\* --------------------------------------------------------------- search
\* the collections the worker leaves behind, as the search tool finds them
\* the record left by a job for photo p with image i and metadata document d
Stored(p, i, d) == ExpectedRecord([Job(p, i) EXCEPT !.metadata_key = d])

\* three morning and two evening photos
Album ==
  <<Stored("p1", 2, 1), Stored("p2", 1, 2), Stored("p3", 3, 3),
    Stored("p4", 4, 2), Stored("p5", 1, 1)>>

\* more photos than a search may return
Library ==
  [i \in 1..21 |->
     Stored("q" \o ToString(i), IF i % 2 = 0 THEN 1 ELSE 2, 2)]

SearchIndexes ==
  {<<>>,
   <<ExpectedRecord(Job("p1", 1))>>,
   <<ExpectedRecord(Job("p1", 2)), ExpectedRecord(Job("p2", 1))>>,
   Album,
   Library}

\* no worker is running; every message has been handled
InitSearch ==
  \E idx \in SearchIndexes : Start([m \in MsgIds |-> NotJson], {}, {}, idx)

\* one call of the search tool (calls are handled one after the other)
Search(a, env) ==
  /\ ~search.called
  /\ search' = [called |-> TRUE, args |-> a, env |-> env,
                out |-> search_by_image_impl(index, a, env)]
  /\ UNCHANGED <<msgs, qstate, latest, pc, cur, shutdown_flag, metadata,
                 embedding, tmp, index, progress, recvAfterSig>>

\* the caller has taken the result
SearchReturn ==
  /\ search.called
  /\ search' = NoSearch
  /\ UNCHANGED <<msgs, qstate, latest, pc, cur, shutdown_flag, metadata,
                 embedding, tmp, index, progress, recvAfterSig>>

NextSearch ==
  \/ ~search.called /\ \E a \in SearchArgs, env \in SearchEnvs : Search(a, env)
  \/ SearchReturn

SearchSpec == InitSearch /\ [][NextSearch]_vars

\* the steps of several worker processes polling the same queue: a receipt
\* handle can be stale
NextConc ==
  \/ \E m \in MsgIds : VisibilityTimeout(m)
  \/ \E w \in Workers : signal_handler(w)
  \/ \E w \in Workers : LoopEnter(w)
  \/ \E w \in Workers : LoopExit(w)
  \/ \E w \in Workers : ReceiveIssue(w)
  \/ \E w \in Workers, m \in MsgIds : ReceiveMsg(w, m)
  \/ \E w \in Workers : ReceiveEmpty(w)
  \/ \E w \in Workers : ReceiveFail(w)
  \/ \E w \in Workers : RejectDelete(w)
  \/ \E w \in Workers : RejectDeleteStale(w)
  \/ \E w \in Workers : RejectDeleteFail(w)
  \/ \E w \in Workers : ValidateRaise(w)
  \/ \E w \in Workers : ValidateOK(w)
  \/ \E w \in Workers : JobFail(w)
  \/ \E w \in Workers : DownloadImage(w)
  \/ \E w \in Workers : DownloadMetadata(w)
  \/ \E w \in Workers : LoadMetadata(w)
  \/ \E w \in Workers : Normalize(w)
  \/ \E w \in Workers : Embed(w)
  \/ \E w \in Workers : Store(w)
  \/ \E w \in Workers : Ack(w)
  \/ \E w \in Workers : AckStale(w)
  \/ \E w \in Workers : Cleanup(w)
  \/ \E w \in Workers : CleanupFail(w)
  \/ \E w \in Workers : Wake(w)

SpecConc == InitConc /\ [][NextConc]_vars

\* ============================================================ properties

\* C1: the message of a validated job is deleted only by a delivery whose
\* collection.add for the job's photo_id has already returned; no step
\* deletes it before or without that store.
C1_AckOnlyAfterStore ==
  [][\A m \in MsgIds :
       (IsValidJob(msgs[m]) /\ qstate[m] # "deleted" /\ qstate'[m] = "deleted")
       => \E w \in Workers :
            /\ cur[w] = m
            /\ pc[w] = "ack"
            /\ progress[w] = "stored"
            /\ HasId(index, msgs[m].photo_id)]_vars

\* a validated job has been stored and then acknowledged by its delivery
C1_Witness ==
  \E w \in Workers :
    /\ pc[w] = "finally"
    /\ progress[w] = "acked"
    /\ IsValidJob(body(w))
    /\ qstate[cur[w]] = "deleted"

\* C2: Store is an overwrite keyed by photo_id: when a delivery's store
\* returns, the index holds exactly one record for the id and it carries the
\* vector and metadata that delivery produced.
C2_StoreOverwrites ==
  [][\A w \in Workers :
       (pc[w] = "store" /\ pc'[w] = "ack")
       => RecordsFor(index', photo_id(w))
            = <<Record(photo_id(w), embedding[w], metadata[w])>>]_vars

\* C3: a received message that is not a JSON object with all four required
\* fields is deleted from the queue by the delivery that validates it
\* (unless the queue's delete call itself fails), with no download,
\* embedding or index write.
C3_InvalidRejected ==
  [][\A w \in Workers :
       (pc[w] = "validate" /\ ~IsValidJob(body(w)) /\ pc'[w] # "validate")
       => /\ \/ qstate'[cur[w]] = "deleted"
             \/ ValidateOutcome(body(w)) = "reject"
          /\ pc'[w] \in {"loop", "sleep"}
          /\ tmp' = tmp
          /\ index' = index]_vars

\* C6: an exception raised while handling a job never ends the process:
\* the process exits only from the loop test, with the shutdown flag set,
\* and a worker that caught an exception is back in the loop.
C6_NoCrash ==
  [][\A w \in Workers :
       /\ (pc'[w] = "exited" /\ pc[w] # "exited")
            => (pc[w] = "loop" /\ shutdown_flag[w])
       /\ (pc[w] = "sleep" /\ pc'[w] # "sleep") => pc'[w] = "loop"
       /\ (pc[w] = "loop" /\ ~shutdown_flag[w] /\ pc'[w] # "loop")
            => pc'[w] = "receive"]_vars

\* an exception was caught by the main loop and the worker is still running
C6_Witness ==
  \E w \in Workers : pc[w] = "sleep" /\ ~shutdown_flag[w]

\* C7: when the handling of a validated job ends with its finally block
\* completed, neither the staged image nor the staged metadata document of
\* that job is left in the temp directory.
C7_NoTempFilesRemain ==
  [][\A w \in Workers :
       (pc[w] = "finally" /\ pc'[w] = "loop")
       => /\ tmp'[local_path(w)] = Absent
          /\ tmp'[local_metadata_path(w)] = Absent]_vars

\* C8 (as stated): once the signal has been received, the worker issues no
\* new queue receive.
C8_NoReceiveAfterSignal ==
  [][\A w \in Workers :
       shutdown_flag[w] => ~(pc[w] = "receive" /\ pc'[w] = "polling")]_vars

\* C8 (amended): once the signal has been received the loop test never
\* starts another iteration, so at most one receive is issued after the
\* signal (the one whose loop test came before it); the process exits only
\* from the loop test, so a job in flight is carried to its end.
C8_NoNewIterationAfterSignal ==
  [][\A w \in Workers :
       /\ (shutdown_flag[w] /\ pc[w] = "loop") => pc'[w] \in {"loop", "exited"}
       /\ (pc'[w] = "exited" /\ pc[w] # "exited") => pc[w] = "loop"
       /\ recvAfterSig'[w] <= 1]_vars

\* the signal arrived between the loop test and the receive, a job was
\* received and handled, and the worker then exited
C8_Witness ==
  \E w \in Workers :
    /\ pc[w] = "exited"
    /\ recvAfterSig[w] = 1
    /\ \E m \in MsgIds : qstate[m] = "deleted" /\ IsValidJob(msgs[m])

\* C5: two workers handling the same job in overlapping deliveries leave
\* exactly one record for its photo_id, the record a single processing
\* writes, and the job is acknowledged once the worker holding the latest
\* receipt has acknowledged it.
C5_ConcurrentSameJob ==
  /\ Len(index) <= 1
  /\ \A w \in Workers :
       /\ progress[w] # "none" => index = <<ExpectedRecord(body(w))>>
       /\ (progress[w] = "acked" /\ latest[cur[w]] = w)
            => qstate[cur[w]] = "deleted"
  /\ \A m \in MsgIds :
       (IsValidJob(msgs[m]) /\ qstate[m] = "deleted")
         => index = <<ExpectedRecord(msgs[m])>>

\* both workers stored and acknowledged the same job in overlapping
\* deliveries
C5_Witness ==
  /\ \A w \in Workers : progress[w] = "acked" /\ pc[w] = "finally"
  /\ cur["w1"] = cur["w2"]
  /\ qstate[cur["w1"]] = "deleted"

\* ------------------------------------------------------------- liveness
\* one worker process polling a queue that holds two valid jobs (any other
\* messages were malformed and are already deleted)
InitLive ==
  \E j1, j2 \in Jobs :
    Start([m \in MsgIds |-> IF m = 1 THEN j1 ELSE IF m = 2 THEN j2 ELSE NotJson],
          {1, 2}, {"w1"}, <<>>)

\* the steps of a single worker that is not shut down
NextLive ==
  \/ \E m \in MsgIds : VisibilityTimeout(m)
  \/ \E w \in Workers : LoopEnter(w)
  \/ \E w \in Workers : ReceiveIssue(w)
  \/ \E w \in Workers, m \in MsgIds : ReceiveMsg(w, m)
  \/ \E w \in Workers : ReceiveEmpty(w)
  \/ \E w \in Workers : ReceiveFail(w)
  \/ \E w \in Workers : ValidateOK(w)
  \/ \E w \in Workers : JobFail(w)
  \/ \E w \in Workers : DownloadImage(w)
  \/ \E w \in Workers : DownloadMetadata(w)
  \/ \E w \in Workers : LoadMetadata(w)
  \/ \E w \in Workers : Normalize(w)
  \/ \E w \in Workers : Embed(w)
  \/ \E w \in Workers : Store(w)
  \/ \E w \in Workers : Ack(w)
  \/ \E w \in Workers : Cleanup(w)
  \/ \E w \in Workers : CleanupFail(w)
  \/ \E w \in Workers : Wake(w)

\* the queue redelivers, every call eventually returns, and each step of a
\* delivery eventually succeeds
Fairness ==
  /\ \A m \in MsgIds : WF_vars(VisibilityTimeout(m))
  /\ WF_vars(LoopEnter("w1"))
  /\ WF_vars(ReceiveIssue("w1"))
  /\ WF_vars(Wake("w1"))
  /\ WF_vars(Cleanup("w1"))
  /\ WF_vars(ValidateOK("w1"))
  /\ SF_vars(\E m \in MsgIds : ReceiveMsg("w1", m))
  /\ SF_vars(DownloadImage("w1"))
  /\ SF_vars(DownloadMetadata("w1"))
  /\ SF_vars(LoadMetadata("w1"))
  /\ SF_vars(Normalize("w1"))
  /\ SF_vars(Embed("w1"))
  /\ SF_vars(Store("w1"))
  /\ SF_vars(Ack("w1"))

LiveSpec == InitLive /\ [][NextLive]_vars /\ Fairness

JobDone(m) ==
  IsValidJob(msgs[m])
    => (HasId(index, msgs[m].photo_id) /\ qstate[m] = "deleted")

InvalidFilters(a) ==
  \/ a.month # JNull /\ ~(a.month[1] = "int" /\ 1 <= a.month[2] /\ a.month[2] <= 12)
  \/ a.time_of_day # JNull /\ a.time_of_day \notin Periods
  \/ a.camera_make # JNull /\ ~(IsStr(a.camera_make) /\ strip(a.camera_make) # JStr(""))
  \/ a.camera_model # JNull /\ ~(IsStr(a.camera_model) /\ strip(a.camera_model) # JStr(""))

\* C9: a call with an invalid month, time_of_day, camera_make or
\* camera_model returns the empty list and raises nothing.
C9_ValidationFailsClosed ==
  (search.called /\ InvalidFilters(search.args))
    => (~search.out.raised /\ search.out.value = <<>>)

\* C10: an index failure during the query reaches the caller as an error,
\* never as an empty result list, while a validation failure returns the
\* empty list.
C10_IndexFailurePropagates ==
  /\ (search.called /\ search.out.query_called /\ search.env.query_fails)
       => search.out.raised
  /\ (search.called /\ InvalidFilters(search.args) /\ ~search.out.query_called)
       => (~search.out.raised /\ search.out.value = <<>>)

\* the scalar fields of the metadata schema, and the numeric ones
NumericFields == {"year", "month", "hour"}
SchemaFields ==
  NumericFields \cup {"period_of_day", "camera_make", "camera_model"}

\* worker w has just run flatten_metadata and sanitize_metadata
Normalized(w) == pc[w] = "normalize" /\ pc'[w] = "embed"

\* C17: after normalisation a year, month or hour that was null or absent
\* in the document is -1, and any other scalar field that was null or
\* absent is "unknown".
C17_SentinelSubstitution ==
  [][\A w \in Workers :
       Normalized(w)
       => \A k \in SchemaFields :
            (k \notin DOMAIN metadata[w] \/ metadata[w][k] = JNull)
            => /\ k \in DOMAIN metadata'[w]
               /\ metadata'[w][k] =
                    (IF k \in NumericFields THEN JInt(-1) ELSE JStr("unknown"))]_vars

\* C18: every value of a normalised metadata document, and every metadata
\* value of a record in the index, is a string, an int or a float.
C18_ScalarOnly ==
  /\ [][\A w \in Workers : Normalized(w) => ScalarOnly(metadata'[w])]_vars
  /\ [](\A i \in 1..Len(index) : ScalarOnly(index[i].metadata))

StepAfter(step) ==
  CASE step = "download_image" -> "download_metadata"
    [] step = "download_metadata" -> "load_metadata"
    [] step = "load_metadata" -> "normalize"
    [] step = "normalize" -> "embed"
    [] step = "embed" -> "store"
    [] step = "store" -> "ack"
    [] step = "ack" -> "finally"

\* C20: the steps of a delivery run one after the other in the order
\* download image, download metadata, normalize, embed, store, acknowledge;
\* the index changes only in the store step of a delivery whose downloads,
\* normalisation and embedding have produced their results; a delivery that
\* fails before its store leaves the index as it was.
C20_StepsInSequence ==
  [][/\ \A w \in Workers :
          (pc[w] \in JobPcs /\ pc'[w] # pc[w])
          => /\ pc'[w] \in {StepAfter(pc[w]), "finally"}
             /\ (pc[w] # "store" => index' = index)
     /\ index' # index
          => \E w \in Workers :
               /\ pc[w] = "store" /\ pc'[w] = "ack"
               /\ tmp[local_path(w)] = body(w).image_key
               /\ tmp[local_metadata_path(w)] = body(w).metadata_key
               /\ metadata[w] =
                    sanitize_metadata(flatten_metadata(RawDoc(body(w).metadata_key)))
               /\ embedding[w] = embed_image(body(w).image_key)]_vars

\* a delivery failed after its downloads and before its embedding while the
\* index held the record of an earlier job, and the index still holds just
\* that
C20_Witness ==
  \E w \in Workers :
    /\ pc[w] = "finally"
    /\ progress[w] = "none"
    /\ metadata[w] # NoDoc
    /\ embedding[w] = NoVec
    /\ Len(index) = 1
    /\ index[1].id # photo_id(w)

\* a completed call that reached the index and got an answer
Answered ==
  search.called /\ search.out.query_called /\ ~search.env.query_fails

\* C11: whatever k the caller passes (zero, negative, above 20), the number
\* of results asked of the index is k clamped to 1..20, the call returns at
\* most 20 results and it does not raise.
C11_KClamped ==
  search.called
    => /\ ~search.out.raised
       /\ Len(search.out.value) <= 20
       /\ search.out.query_called
            => search.out.n_results =
                 (IF search.args.k < 1 THEN 1
                  ELSE IF search.args.k > 20 THEN 20 ELSE search.args.k)

\* a call with k = 999 over an index of 21 records returned 20 results
C11_Witness ==
  /\ Answered
  /\ search.args.k = 999
  /\ Len(index) = 21
  /\ Len(search.out.value) = 20

\* the predicates a caller supplied: one per parameter that is not None,
\* time_of_day under the field period_of_day
SuppliedFilter(a) ==
  LET f1 == IF a.year # JNull THEN Put(EmptyDict, "year", a.year) ELSE EmptyDict
      f2 == IF a.month # JNull THEN Put(f1, "month", a.month) ELSE f1
      f3 == IF a.time_of_day # JNull
            THEN Put(f2, "period_of_day", a.time_of_day) ELSE f2
      f4 == IF a.camera_make # JNull
            THEN Put(f3, "camera_make", strip(a.camera_make)) ELSE f3
      f5 == IF a.camera_model # JNull
            THEN Put(f4, "camera_model", strip(a.camera_model)) ELSE f4
  IN  f5

\* C12: the filter handed to the index has an equality predicate for a
\* field exactly when the caller supplied that parameter (time_of_day as
\* period_of_day), with the supplied value, and no other key.
C12_FilterExactMapping ==
  (search.called /\ search.out.query_called)
    => search.out.where = SuppliedFilter(search.args)

\* C13: a search that reached the index returns exactly the nearest stored
\* records whose metadata satisfies every predicate the caller supplied,
\* nearest first, and no other record.
C13_FilteredResultsOnly ==
  Answered
    => LET f == SuppliedFilter(search.args)
           sat == {i \in 1..Len(index) : Matches(index[i].metadata, f)}
           order == Nearest(index, embed_image(QueryContent), sat)
           n == Min(Len(order), search.out.n_results)
       IN  search.out.returned.ids = [j \in 1..n |-> index[order[j]].id]

\* C14: the photo_id of every result is the id of the index record it was
\* built from.
C14_PhotoIdIsRecordId ==
  Answered
    => \A i \in 1..Len(search.out.value) :
         search.out.value[i].photo_id = JStr(search.out.returned.ids[i])

\* C15: the result list has the length and the order of the list the index
\* returned: result i carries the metadata and the distance of returned
\* record i.
C15_OrderPreserved ==
  Answered
    => LET raw == search.out.returned
           res == search.out.value
       IN  /\ Len(res) = Len(raw.ids)
           /\ \A i \in 1..Len(res) :
                /\ res[i].period_of_day = Get(raw.metadatas[i], "period_of_day")
                /\ res[i].year = Get(raw.metadatas[i], "year")
                /\ res[i].camera_make = Get(raw.metadatas[i], "camera_make")
                /\ i <= Len(raw.distances)
                     => res[i].distance = JFloat(raw.distances[i])

\* three records at three different distances came back, nearest first
C15_Witness ==
  /\ Answered
  /\ Len(search.out.value) = 3
  /\ search.out.value[1].distance = JFloat(0)
  /\ search.out.value[2].distance = JFloat(3576)
  /\ search.out.value[3].distance = JFloat(6420)

\* C16: the similarity_score of a result is 1 - distance rounded to three
\* decimals (a multiple of 0.001 at most 0.0005 away from 1 - distance;
\* 1.0 for distance 0.0 and 0.358 for distance 0.642), and null when the
\* index returned no distance.
C16_SimilarityScore ==
  Answered
    => \A i \in 1..Len(search.out.value) :
         LET r == search.out.value[i]
         IN  IF i <= Len(search.out.returned.distances)
             THEN LET d == search.out.returned.distances[i]
                      sc == r.similarity_score
                  IN  /\ sc[1] = "float"
                      /\ sc[2] % 10 = 0
                      /\ sc[2] - (One - d) <= 5
                      /\ (One - d) - sc[2] <= 5
                      /\ d = 0 => sc[2] = 10000
                      /\ d = 6420 => sc[2] = 3580
             ELSE r.distance = JNull /\ r.similarity_score = JNull

\* a result at distance 0.3576 carries the score 0.642
C16_Witness ==
  /\ Answered
  /\ \E i \in 1..Len(search.out.value) :
       /\ search.out.value[i].distance = JFloat(3576)
       /\ search.out.value[i].similarity_score = JFloat(6420)


\* C21: a call whose month, time_of_day, camera_make or camera_model is
\* invalid invokes neither the embedding function nor the index query, and
\* no search call changes the index.
C21_ValidationBeforeBackend ==
  /\ [](\/ ~(search.called /\ InvalidFilters(search.args))
        \/ (~search.out.embed_called /\ ~search.out.query_called))
  /\ [][index' = index]_vars


\* ------------------------------------------------------------- shutdown
\* one worker process polling a queue that holds one arbitrary message
InitStop ==
  \E b \in Bodies :
    Start([m \in MsgIds |-> IF m = 1 THEN b ELSE NotJson], {1}, {"w1"}, <<>>)

\* the next statement of worker w, whatever it is
WorkerStep(w) ==
  \/ LoopEnter(w)
  \/ LoopExit(w)
  \/ ReceiveIssue(w)
  \/ \E m \in MsgIds : ReceiveMsg(w, m)
  \/ ReceiveEmpty(w)
  \/ ReceiveFail(w)
  \/ RejectDelete(w)
  \/ RejectDeleteFail(w)
  \/ ValidateRaise(w)
  \/ ValidateOK(w)
  \/ JobFail(w)
  \/ DownloadImage(w)
  \/ DownloadMetadata(w)
  \/ LoadMetadata(w)
  \/ Normalize(w)
  \/ Embed(w)
  \/ Store(w)
  \/ Ack(w)
  \/ Cleanup(w)
  \/ CleanupFail(w)
  \/ Wake(w)

\* every call the worker makes returns or raises: the process keeps running
StopSpec == InitStop /\ [][Next]_vars /\ WF_vars(WorkerStep("w1"))

\* C22: once the signal has been received the worker eventually exits; it
\* issues at most one more receive, and once it is back at the loop test or
\* in the back-off sleep it handles no further message.
C22_ExitsAfterSignal ==
  /\ shutdown_flag["w1"] ~> (pc["w1"] = "exited")
  /\ [](recvAfterSig["w1"] <= 1)
  /\ []((shutdown_flag["w1"] /\ pc["w1"] \in {"loop", "sleep"})
          => [](pc["w1"] \in {"loop", "sleep", "exited"}))

\* the signal arrived while the worker was in its back-off sleep
C22_Witness ==
  /\ shutdown_flag["w1"]
  /\ pc["w1"] = "sleep"
  /\ qstate[1] # "deleted"

\* C23: a worker's staged image file stays in place with the content that
\* worker downloaded, from its download until its embed step has read it,
\* whatever another worker on the host does meanwhile.
C23_NoSharedTempState ==
  \A w \in Workers :
    pc[w] \in {"download_metadata", "load_metadata", "normalize", "embed"}
      => tmp[local_path(w)] = body(w).image_key

====
